---- MODULE Spec2Model ----
(***************************************************************************)
(* Model of the nbpg_extension helpers:                                    *)
(*   calculate_HCRU              (src/src/get_hcru.py)                     *)
(*   get_aggregated_measurement  (src/src/get_agg_measurements.py)         *)
(*   write_db                    (src/src/utilities.py)                    *)
(* Tables (pandas DataFrames) are sequences of records, dates are day      *)
(* numbers, and the external fetchers of neuroblu_postgres are inputs of   *)
(* the actions that call them.                                             *)
(***************************************************************************)
EXTENDS Integers, Sequences, FiniteSets, TLC

(***************************************************************************)
(* Bounds of the model                                                     *)
(***************************************************************************)
\* rows nb.get_visit may return for the merged label
MaxVisits == 3
\* rows nb.get_visit may return for every other label
MaxVisitsOther == 1

\* rows nb.get_CGIS may return
MaxRows == 5
\* rows nb.get_CGII may return
MaxRowsOther == 2
\* rows nb.get_GAF may return
MaxRowsGAF == 3

Persons == {1, 2}
MeasurementDates == {1, 2}
Values == {3, 5, 7}
\* CGI-I readings: adjacent scores, one day
ImprovementDates == {1}
ImprovementValues == {2, 3, 4}
\* GAF readings: three days apart from each other
GafDates == {1, 5, 10}
GafValues == {4, 6}
Days == 1..4
RefDates == {1, 3}
Offsets == {-1, 0, 1}

\* [visit_start_date, visit_end_date] pairs of a fetched visit row: every
\* range with end >= start, and two rows whose end precedes their start
VisitRanges ==
    {<<s, e>> \in Days \X Days : s <= e} \cup {<<2, 1>>, <<4, 3>>}

(***************************************************************************)
(* Generic table helpers                                                   *)
(***************************************************************************)
\* the rows s[k] with T(k), in order (a boolean-mask selection)
SelectIdx(s, T(_)) ==
    LET F[k \in 0..Len(s)] ==
            IF k = 0 THEN <<>>
            ELSE IF T(k) THEN Append(F[k - 1], s[k]) ELSE F[k - 1]
    IN  F[Len(s)]

Range(s) == {s[k] : k \in 1..Len(s)}

\* order of sort_values(['person_id', 'visit_start_date', 'visit_end_date'])
VisitLess(a, b) ==
    \/ a.person_id < b.person_id
    \/ a.person_id = b.person_id /\ a.visit_start_date < b.visit_start_date
    \/ /\ a.person_id = b.person_id
       /\ a.visit_start_date = b.visit_start_date
       /\ a.visit_end_date < b.visit_end_date

VisitLE(a, b) == ~VisitLess(b, a)

\* the tables of at most n rows over the row set R, rows ascending by LE
SortedFrames(R, n, LE(_, _)) ==
    LET F[k \in 0..n] ==
            IF k = 0 THEN {<<>>}
            ELSE F[k - 1] \cup UNION {
                    {Append(s, r) :
                        r \in {x \in R : s = <<>> \/ LE(s[Len(s)], x)}}
                    : s \in {t \in F[k - 1] : Len(t) = k - 1}}
    IN  F[n]

(***************************************************************************)
(* calculate_HCRU: arguments                                               *)
(***************************************************************************)
VisitType(n) == [name |-> n, isStr |-> TRUE]

Entry(k, ts) == [key |-> k, keyIsStr |-> TRUE, isList |-> TRUE, types |-> ts]

\* get_hcru.py:53-57
DefaultMapping ==
    [kind |-> "dict",
     items |-> << Entry("OP", <<VisitType("Outpatient Visit")>>),
                  Entry("IP", <<VisitType("Inpatient Visit")>>),
                  Entry("ED", <<VisitType("Emergency Room Visit")>>) >>]

\* one label merging two visit types
MergedEntry ==
    Entry("HC", <<VisitType("Inpatient Visit"),
                  VisitType("Emergency Room Visit")>>)

MappingArgs ==
    { [kind |-> "none", items |-> <<>>],
      [kind |-> "notdict", items |-> <<>>],
      [kind |-> "dict", items |-> <<>>],
      [kind |-> "dict", items |-> <<MergedEntry>>],
      [kind |-> "dict",
       items |-> << Entry("OP", <<VisitType("Outpatient Visit")>>),
                    Entry("IP", <<VisitType("Inpatient Visit")>>) >>],
      \* a label with an empty list of visit types
      [kind |-> "dict", items |-> <<Entry("OP", <<>>)>>],
      \* a label whose value is not a list
      [kind |-> "dict",
       items |-> <<[key |-> "OP", keyIsStr |-> TRUE, isList |-> FALSE,
                    types |-> <<>>]>>],
      \* a key that is not a string
      [kind |-> "dict",
       items |-> <<[key |-> "1", keyIsStr |-> FALSE, isList |-> TRUE,
                    types |-> <<VisitType("Outpatient Visit")>>]>>],
      \* a visit type that is not a string
      [kind |-> "dict",
       items |-> <<Entry("OP", <<[name |-> "7", isStr |-> FALSE]>>)>>] }

\* period_start / period_end: an integer offset, or a value of another type
PeriodArgs ==
    {[isInt |-> TRUE, v |-> o] : o \in Offsets} \cup {[isInt |-> FALSE, v |-> 0]}

\* a missing value (NaN, None, NaT) of a table cell
Missing == "NaN"

\* a cohort row: person_id, the reference column, one more column of the
\* caller's, and the count columns the loop adds
CohortRow(p, d) ==
    [person_id |-> p, index_date |-> d, other |-> "x", counts |-> <<>>]

\* the cohort tables: one patient, two patients, one patient listed twice
Cohorts ==
    {<<CohortRow(1, d)>> : d \in RefDates}
    \cup {<<CohortRow(2, d), CohortRow(1, e)>> : d \in RefDates, e \in RefDates}
    \cup {<<CohortRow(1, d), CohortRow(1, e)>> : d \in RefDates, e \in RefDates}
    \* a missing value in the caller's own column
    \cup {<<[CohortRow(1, 1) EXCEPT !.other = Missing]>>}

VARIABLES
    caller_patients,    \* the caller's cohort table, passed as patients
    patients,           \* the cohort table (argument, rebound by the loop)
    ref_is_datetime,    \* dtype of patients[reference_col] is datetime64
    period_start, period_end, visit_mapping,   \* arguments
    pc,                 \* "start", "loop", "done"
    i,                  \* position of the loop in visit_mapping.keys()
    period_duration,
    get_visit_calls,    \* the calls of nb.get_visit made so far
    df_visit,           \* what the last nb.get_visit returned
    patients_visits,    \* the visit rows left after the de-duplication
    number_of_visits_in_period,
    warned,             \* labels a warning was issued for
    outcome             \* "none", "returned", or the exception raised

hvars == <<caller_patients, patients, ref_is_datetime, period_start, period_end, visit_mapping,
           pc, i, period_duration, get_visit_calls, df_visit, patients_visits,
           number_of_visits_in_period, warned, outcome>>

VARIABLES
    scale, agg, change, \* arguments of get_aggregated_measurement
    apc,                \* "idle", "start", "fetch", "aggregate", "finish", "done"
    get_measurement_calls,  \* the calls of nb.get_CGIS / get_CGII / get_GAF
    df,                 \* the fetched measurement rows
    clean_agg_df,       \* the aggregated table of line 117
    aresult,            \* the table returned
    awarned,            \* warnings issued
    aoutcome            \* "none", "returned", or the exception raised

avars == <<scale, agg, change, apc, get_measurement_calls, df, clean_agg_df,
           aresult, awarned, aoutcome>>

VARIABLES
    df_columns,         \* the column names of the caller's df, as a kind
    tablename, change_user, drop_ifexists, dbname,   \* arguments of write_db
    default_db,         \* "defaultDB" of db.json, "None" when absent
    wpc,                \* "idle", "start", "create", "insert", "finish", "done"
    r_insert,           \* r of line 323, what pgIO.commitDataList returned
    db_log,             \* the statements committed, each with its database
    wwarned,            \* warnings issued
    woutcome            \* "none", "returned ...", or the exception raised

wvars == <<df_columns, tablename, change_user, drop_ifexists, dbname,
           default_db, wpc, r_insert, db_log, wwarned, woutcome>>

vars == <<hvars, avars, wvars>>

\* write_db is not running
WriteIdle ==
    /\ df_columns = "plain" /\ tablename = "plain"
    /\ change_user = [isStr |-> TRUE, v |-> "ds_role"]
    /\ drop_ifexists = FALSE /\ dbname = "None" /\ default_db = "cdm"
    /\ wpc = "idle" /\ r_insert = "unset" /\ db_log = <<>>
    /\ wwarned = <<>> /\ woutcome = "none"

(***************************************************************************)
(* calculate_HCRU: the table operations of one loop iteration              *)
(***************************************************************************)
VisitRow(p, r) ==
    [person_id |-> p, visit_start_date |-> r[1], visit_end_date |-> r[2]]

\* the tables nb.get_visit may return for the cohort and one mapping entry:
\* any rows of the cohort's patients (the visit types are not read again)
GetVisitFrames(cohort, e) ==
    SortedFrames(
        {VisitRow(c.person_id, r) : c \in Range(cohort), r \in VisitRanges},
        IF e = MergedEntry THEN MaxVisits ELSE MaxVisitsOther,
        VisitLE)

\* patients.merge(df_visit, on='person_id'): inner join, left order kept
RECURSIVE Merge(_, _)
Merge(left, right) ==
    IF left = <<>> THEN <<>>
    ELSE LET c == Head(left)
             m == SelectSeq(right, LAMBDA v : v.person_id = c.person_id)
         IN  [k \in 1..Len(m) |->
                 [person_id |-> c.person_id, index_date |-> c.index_date,
                  visit_start_date |-> m[k].visit_start_date,
                  visit_end_date |-> m[k].visit_end_date]]
             \o Merge(Tail(left), right)

\* faulty variant: only the upper end of the period is tested
InPeriod_StartOnly(pv, ps, pe) ==
    SelectSeq(pv, LAMBDA r : r.visit_start_date <= r.index_date + pe)

\* faulty variant: only the rows lying inside the period pass
InPeriod_Inside(pv, ps, pe) ==
    SelectSeq(pv, LAMBDA r :
        /\ r.visit_start_date >= r.index_date + ps
        /\ r.visit_end_date <= r.index_date + pe)

\* get_hcru.py:77-78, the rows that reach into the period of their cohort row
InPeriod(pv, ps, pe) ==
    SelectSeq(pv, LAMBDA r :
        /\ r.visit_start_date <= r.index_date + pe
        /\ r.visit_end_date >= r.index_date + ps)

\* sort_values: r is put after the rows that are not greater
RECURSIVE InsertSorted(_, _)
InsertSorted(r, s) ==
    IF s = <<>> THEN <<r>>
    ELSE IF VisitLess(r, Head(s)) THEN <<r>> \o s
    ELSE <<Head(s)>> \o InsertSorted(r, Tail(s))

RECURSIVE SortValues(_)
SortValues(s) ==
    IF s = <<>> THEN <<>>
    ELSE InsertSorted(s[Len(s)], SortValues(SubSeq(s, 1, Len(s) - 1)))

\* drop_duplicates(subset=['person_id', 'visit_start_date']), first row kept
DropDuplicateStarts(s) ==
    SelectIdx(s, LAMBDA k : \A j \in 1..(k - 1) :
        ~(/\ s[j].person_id = s[k].person_id
          /\ s[j].visit_start_date = s[k].visit_start_date))

\* drop_duplicates(subset=['person_id', 'visit_end_date']), first row kept
DropDuplicateEnds(s) ==
    SelectIdx(s, LAMBDA k : \A j \in 1..(k - 1) :
        ~(/\ s[j].person_id = s[k].person_id
          /\ s[j].visit_end_date = s[k].visit_end_date))

\* faulty variant: the next row must start strictly inside the row's range
DropNextInside_Strict(s) ==
    SelectIdx(s, LAMBDA k :
        ~(/\ k < Len(s)
          /\ s[k + 1].person_id = s[k].person_id
          /\ s[k + 1].visit_start_date > s[k].visit_start_date
          /\ s[k + 1].visit_start_date < s[k].visit_end_date))

\* get_hcru.py:87-91: a row is removed when the next row is of the same
\* patient and starts within the row's [start, end]; the last row has no
\* next row (shift(-1) gives a missing value, every comparison is false)
DropNextInside(s) ==
    SelectIdx(s, LAMBDA k :
        ~(/\ k < Len(s)
          /\ s[k + 1].person_id = s[k].person_id
          /\ s[k + 1].visit_start_date >= s[k].visit_start_date
          /\ s[k + 1].visit_start_date <= s[k].visit_end_date))

\* get_hcru.py:75-91
Deduplicate(cohort, fetched, ps, pe) ==
    DropNextInside(
        DropDuplicateEnds(
            DropDuplicateStarts(
                SortValues(InPeriod(Merge(cohort, fetched), ps, pe)))))

PlainColumn(n) == [base |-> n, suffix |-> <<>>]

\* f'{i}_{period_start}-{period_end}'
CountColumn(label, ps, pe) == [base |-> label, suffix |-> <<ps, pe>>]

\* groupby('person_id').agg({'visit_start_date': 'nunique'}).reset_index()
Nunique(pv) ==
    LET ids == {r.person_id : r \in Range(pv)}
        row(p) == [person_id |-> p,
                   n |-> Cardinality({r.visit_start_date :
                            r \in {x \in Range(pv) : x.person_id = p}})]
        F[k \in 0..Cardinality(ids)] ==
            IF k = 0 THEN <<>>
            ELSE Append(F[k - 1],
                    row(CHOOSE p \in ids :
                        Cardinality({q \in ids : q < p}) = k - 1))
    IN  [cols |-> <<PlainColumn("person_id"), PlainColumn("visit_start_date")>>,
         rows |-> F[Cardinality(ids)]]

\* rename(columns={old: new})
Rename(t, old, new) ==
    [t EXCEPT !.cols = [k \in 1..Len(t.cols) |->
                            IF t.cols[k] = old THEN new ELSE t.cols[k]]]

HasColumn(t, c) == c \in Range(t.cols)

\* get_hcru.py:97, Series.any() > period_duration: any() is a boolean, and
\* True compares as 1, False as 0
AnyExceeds(t, duration) ==
    (IF \E r \in Range(t.rows) : r.n # 0 THEN 1 ELSE 0) > duration

\* patients.merge(number_of_visits_in_period, on='person_id', how='left')
\* followed by fillna(0): every missing value of the table becomes 0, that
\* of a patient without a count row and those of the other columns alike
\* (the cells of the column other are strings: 0 is written "0")
MergeLeftFillna(cohort, t) ==
    [k \in 1..Len(cohort) |->
        LET m == {r \in Range(t.rows) : r.person_id = cohort[k].person_id}
        IN  [cohort[k] EXCEPT
                !.other = IF @ = Missing THEN "0" ELSE @,
                !.counts =
                    Append(@, [col |-> t.cols[2],
                               n |-> IF m = {} THEN 0
                                     ELSE (CHOOSE r \in m : TRUE).n])]]

\* faulty variant: the two shifted columns are assigned on patients
ShiftColumnsTarget_Patients == "patients"

\* get_hcru.py:87-88: the name whose table the two shifted columns are
\* assigned on, in place
ShiftColumnsTarget == "patients_visits"

\* the caller's table after lines 87-88 of iteration iter: the name patients
\* is bound to it until line 100 rebinds the name at the end of the first
\* iteration; patients_visits is a table made by lines 75-85
AfterShiftColumns(caller, iter) ==
    IF ShiftColumnsTarget = "patients" /\ iter = 1
    THEN [k \in 1..Len(caller) |->
            [caller[k] EXCEPT !.counts =
                @ \o << [col |-> PlainColumn("next_visit_start"), n |-> 0],
                        [col |-> PlainColumn("next_person_id"), n |-> 0] >>]]
    ELSE caller

(***************************************************************************)
(* calculate_HCRU: the steps                                               *)
(***************************************************************************)
Keys == visit_mapping.items

\* faulty variant: the order of period_start and period_end is not checked
ArgumentError_NoOrderCheck(ps, pe, vm, isdt) ==
    IF ~ps.isInt THEN "TypeError"
    ELSE IF ~pe.isInt THEN "TypeError"
    ELSE IF vm.kind # "dict" THEN "TypeError"
    ELSE IF ~isdt THEN "TypeError"
    ELSE "none"

\* get_hcru.py:59-68, the exception the checks raise ("none": they pass)
ArgumentError(ps, pe, vm, isdt) ==
    IF ~ps.isInt THEN "TypeError"
    ELSE IF ~pe.isInt THEN "TypeError"
    ELSE IF vm.kind # "dict" THEN "TypeError"
    ELSE IF ~isdt THEN "TypeError"
    ELSE IF ps.v > pe.v THEN "ValueError"
    ELSE "none"

\* get_hcru.py:52-69
HCRU_Validate ==
    /\ UNCHANGED <<avars, wvars>>
    /\ pc = "start"
    /\ LET vm == IF visit_mapping.kind = "none" THEN DefaultMapping
                 ELSE visit_mapping
           err == ArgumentError(period_start, period_end, vm, ref_is_datetime)
       IN  /\ visit_mapping' = vm
           /\ outcome' = err
           /\ pc' = IF err = "none" THEN "loop" ELSE "done"
           /\ period_duration' =
                IF err = "none" THEN (period_end.v - period_start.v) + 1
                ELSE period_duration
    /\ UNCHANGED <<caller_patients, patients, ref_is_datetime, period_start,
                   period_end, i, get_visit_calls, df_visit, patients_visits,
                   number_of_visits_in_period, warned>>

\* get_hcru.py:74, nb.get_visit raises: the exception leaves calculate_HCRU
HCRU_FetchFails ==
    /\ UNCHANGED <<avars, wvars>>
    /\ pc = "loop"
    /\ i <= Len(Keys)
    /\ get_visit_calls' = Append(get_visit_calls, Keys[i])
    /\ outcome' = "FetchError"
    /\ pc' = "done"
    /\ UNCHANGED <<caller_patients, patients, ref_is_datetime, period_start,
                   period_end, visit_mapping, i, period_duration, df_visit,
                   patients_visits, number_of_visits_in_period, warned>>

\* get_hcru.py:72-101, one iteration of the loop over visit_mapping.keys()
HCRU_Iterate ==
    /\ UNCHANGED <<avars, wvars>>
    /\ pc = "loop"
    /\ i <= Len(Keys)
    /\ get_visit_calls' = Append(get_visit_calls, Keys[i])
    /\ caller_patients' = AfterShiftColumns(caller_patients, i)
    /\ \E fetched \in GetVisitFrames(patients, Keys[i]) :
        LET pv == Deduplicate(patients, fetched, period_start.v, period_end.v)
            col == CountColumn(Keys[i].key, period_start.v, period_end.v)
            nv == Rename(Nunique(pv), PlainColumn("visit_start_date"), col)
        IN  /\ df_visit' = fetched
            /\ patients_visits' = pv
            /\ number_of_visits_in_period' = nv
            /\ IF ~HasColumn(nv, PlainColumn("visit_start_date"))
               THEN \* line 97 reads the column that line 95 renamed
                    /\ outcome' = "KeyError"
                    /\ pc' = "done"
                    /\ UNCHANGED <<patients, warned, i>>
               ELSE /\ warned' = IF AnyExceeds(nv, period_duration)
                                 THEN Append(warned, Keys[i].key) ELSE warned
                    /\ patients' = MergeLeftFillna(patients, nv)
                    /\ i' = i + 1
                    /\ UNCHANGED <<outcome, pc>>
    /\ UNCHANGED <<ref_is_datetime, period_start, period_end, visit_mapping,
                   period_duration>>

\* get_hcru.py:103
HCRU_Return ==
    /\ UNCHANGED <<avars, wvars>>
    /\ pc = "loop"
    /\ i > Len(Keys)
    /\ outcome' = "returned"
    /\ pc' = "done"
    /\ UNCHANGED <<caller_patients, patients, ref_is_datetime, period_start,
                   period_end, visit_mapping, i, period_duration,
                   get_visit_calls, df_visit, patients_visits,
                   number_of_visits_in_period, warned>>

NoTable == [cols |-> <<>>, rows |-> <<>>]

\* get_aggregated_measurement is not running
AggIdle ==
    /\ scale = "CGI-S" /\ agg = "mode_median" /\ change = FALSE
    /\ apc = "idle"
    /\ get_measurement_calls = <<>>
    /\ df = <<>> /\ clean_agg_df = <<>> /\ aresult = <<>>
    /\ awarned = <<>> /\ aoutcome = "none"

Init ==
    /\ AggIdle
    /\ WriteIdle
    /\ patients \in Cohorts
    /\ caller_patients = patients
    /\ ref_is_datetime \in BOOLEAN
    /\ period_start \in PeriodArgs
    /\ period_end \in PeriodArgs
    /\ visit_mapping \in MappingArgs
    /\ pc = "start"
    /\ i = 1
    /\ period_duration = 0
    /\ get_visit_calls = <<>>
    /\ df_visit = <<>>
    /\ patients_visits = <<>>
    /\ number_of_visits_in_period = NoTable
    /\ warned = <<>>
    /\ outcome = "none"

Next ==
    \/ HCRU_Validate
    \/ HCRU_FetchFails
    \/ HCRU_Iterate
    \/ HCRU_Return

Spec == Init /\ [][Next]_vars

(***************************************************************************)
(* calculate_HCRU: properties                                              *)
(***************************************************************************)
ArgErrors == {"TypeError", "ValueError"}

\* an iteration has computed the counts of line 93
Counted == number_of_visits_in_period # NoTable

\* the label the loop is at
Label == Keys[i].key

\* the encounter count of patient p computed at line 93 (no row: no visit)
CountOf(p) ==
    LET m == {r \in Range(number_of_visits_in_period.rows) : r.person_id = p}
    IN  IF m = {} THEN 0 ELSE (CHOOSE r \in m : TRUE).n

CohortIds == {c.person_id : c \in Range(patients)}

\* patient p has one row, hence one period, in the cohort
OneWindow(p) == Cardinality({k \in 1..Len(patients) : patients[k].person_id = p}) = 1

\* the fetched rows of p (positions in df_visit) that reach into a period of p
InWindowIdx(p) ==
    {k \in 1..Len(df_visit) :
        /\ df_visit[k].person_id = p
        /\ \E c \in Range(patients) :
            /\ c.person_id = p
            /\ df_visit[k].visit_start_date <= c.index_date + period_end.v
            /\ df_visit[k].visit_end_date >= c.index_date + period_start.v}

InWindowRanges(p) ==
    {<<df_visit[k].visit_start_date, df_visit[k].visit_end_date>> :
        k \in InWindowIdx(p)}

EndsAfterStarts(p) ==
    \A k \in 1..Len(df_visit) :
        df_visit[k].person_id = p =>
            df_visit[k].visit_end_date >= df_visit[k].visit_start_date

\* two date ranges overlap, touch or are nested: they share a day
SharesDay(a, b) ==
    /\ a[1] <= a[2] /\ b[1] <= b[2]
    /\ a[1] <= b[2] /\ b[1] <= a[2]

\* the number of maximal runs of the ranges of S merged transitively: a run
\* begins at a start date that no range beginning earlier reaches
MergedRuns(S) ==
    Cardinality({x[1] : x \in {r \in S :
        ~\E y \in S : y[1] < r[1] /\ y[2] >= r[1]}})

\* visit_mapping maps string labels to non-empty lists of strings
WellFormedMapping ==
    /\ visit_mapping.kind = "dict"
    /\ \A e \in Range(visit_mapping.items) :
        /\ e.keyIsStr /\ e.isList /\ e.types # <<>>
        /\ \A t \in Range(e.types) : t.isStr

\* C1 (original claim, refuted): a call with valid arguments, a non-empty
\* visit_mapping and no fetch failure returns a table with one row per cohort
\* row, every row holding one count per label, 0 for a patient without a
\* qualifying visit.
C1_OneRowPerCohortRow ==
    (/\ pc = "done" /\ outcome \notin ArgErrors \cup {"FetchError"}
     /\ WellFormedMapping /\ Len(Keys) >= 1)
        => /\ outcome = "returned"
           /\ \A c \in Range(patients) :
                /\ Len(c.counts) = Len(Keys)
                /\ \A k \in 1..Len(c.counts) : c.counts[k].n >= 0
                /\ InWindowIdx(c.person_id) = {} => c.counts[Len(Keys)].n = 0

\* C2 (original claim, refuted): for every patient whose visit rows all have
\* end >= start, the count of line 93 is the number of maximal runs of the
\* in-window date ranges merged transitively.
C2_CountIsMergedRuns ==
    Counted =>
        \A p \in CohortIds :
            EndsAfterStarts(p) => CountOf(p) = MergedRuns(InWindowRanges(p))

\* C3 (original claim, refuted): for every patient whose visit rows all have
\* end >= start, the count of line 93 is at most period_duration.
C3_CountWithinPeriod ==
    Counted =>
        \A p \in CohortIds : EndsAfterStarts(p) => CountOf(p) <= period_duration

\* C3 (amended): for every patient that has exactly one row in the cohort and
\* whose visit rows all have end >= start, the count of line 93 is at most
\* period_duration.
C3_CountWithinPeriodOneWindow ==
    Counted =>
        \A p \in CohortIds :
            (OneWindow(p) /\ EndsAfterStarts(p)) => CountOf(p) <= period_duration

\* a patient with one cohort row whose count fills a period of several days
C3_Witness ==
    /\ Counted
    /\ \E p \in CohortIds :
        /\ OneWindow(p) /\ EndsAfterStarts(p)
        /\ period_duration >= 2
        /\ CountOf(p) = period_duration

\* C4: when exactly two fetched rows of a patient are in window and their date
\* ranges overlap, touch or are nested, the count of line 93 is 1.
C4_OverlappingPairCountsOnce ==
    Counted =>
        \A p \in CohortIds :
            \A j, k \in InWindowIdx(p) :
                (/\ InWindowIdx(p) = {j, k} /\ j # k
                 /\ SharesDay(<<df_visit[j].visit_start_date, df_visit[j].visit_end_date>>,
                              <<df_visit[k].visit_start_date, df_visit[k].visit_end_date>>))
                    => CountOf(p) = 1

\* two in-window rows of a patient, one strictly inside the other, counted once
C4_Witness ==
    /\ Counted
    /\ \E p \in CohortIds :
        \E j, k \in InWindowIdx(p) :
            /\ InWindowIdx(p) = {j, k}
            /\ df_visit[j].visit_start_date < df_visit[k].visit_start_date
            /\ df_visit[k].visit_end_date < df_visit[j].visit_end_date
            /\ CountOf(p) = 1

\* C5 (original claim, refuted): a call whose arguments pass validation, with
\* at least one label and no fetch failure, returns and does not raise.
C5_ReturnsWithoutRaising ==
    (/\ pc = "done" /\ WellFormedMapping /\ Len(Keys) >= 1
     /\ outcome \notin ArgErrors \cup {"FetchError"})
        => outcome = "returned"

\* C6 (original claim, refuted): a warning is issued for the label exactly
\* when some patient's count of line 93 exceeds period_duration.
C6_WarnsIffCountExceeds ==
    Counted =>
        ((\E p \in CohortIds : CountOf(p) > period_duration)
            <=> Label \in Range(warned))

\* C7 (original claim, refuted): a visit_mapping that is not a mapping from
\* string labels to non-empty lists of strings does not get past validation:
\* the call ends there with an argument error.
C7_RejectsMalformedMapping ==
    (pc # "start" /\ ~WellFormedMapping)
        => (pc = "done" /\ outcome \in ArgErrors /\ get_visit_calls = <<>>)

\* C8: a non-integer period_start or period_end, a non-dict visit_mapping and
\* a non-datetime reference column raise TypeError, period_start > period_end
\* raises ValueError, and whenever an argument error is raised nb.get_visit
\* has not been called.
C8_ArgumentErrorsBeforeFetch ==
    pc # "start" =>
        /\ (\/ ~period_start.isInt \/ ~period_end.isInt
            \/ visit_mapping.kind # "dict" \/ ~ref_is_datetime)
                => (outcome = "TypeError" /\ get_visit_calls = <<>>)
        /\ (/\ period_start.isInt /\ period_end.isInt
            /\ visit_mapping.kind = "dict" /\ ref_is_datetime
            /\ period_start.v > period_end.v)
                => (outcome = "ValueError" /\ get_visit_calls = <<>>)
        /\ outcome \in ArgErrors => get_visit_calls = <<>>

\* period_start > period_end rejected with ValueError and nothing fetched
C8_Witness ==
    /\ pc = "done" /\ outcome = "ValueError"
    /\ period_start.v > period_end.v
    /\ get_visit_calls = <<>>

KeptRanges(p) ==
    {<<r.visit_start_date, r.visit_end_date>> :
        r \in {x \in Range(patients_visits) : x.person_id = p}}

\* a precedes b in the order of line 81
RangeBefore(a, b) == a[1] < b[1] \/ (a[1] = b[1] /\ a[2] <= b[2])

\* b, sorted after a, collides with a: same start, same end, or b starts
\* within [a.start, a.end]
Collides(a, b) ==
    \/ b[1] = a[1]
    \/ b[2] = a[2]
    \/ (a[1] <= b[1] /\ b[1] <= a[2])

\* C18: of the rows of a patient in the period, the earliest-starting then
\* earliest-ending one is kept by the cross-duplicate resolution, and every
\* row colliding with it (same start, same end, or starting within its
\* range) is dropped.
C18_EarliestCollidingRowKept ==
    Counted =>
        \A p \in CohortIds :
            (OneWindow(p) /\ EndsAfterStarts(p) /\ InWindowRanges(p) # {}) =>
                LET first == CHOOSE a \in InWindowRanges(p) :
                                \A b \in InWindowRanges(p) : RangeBefore(a, b)
                IN  /\ first \in KeptRanges(p)
                    /\ \A b \in InWindowRanges(p) \ {first} :
                         Collides(first, b) => b \notin KeptRanges(p)

\* the inclusive period [reference + period_start, reference + period_end]
\* of a row carrying the reference date ref
Window(ref) == <<ref + period_start.v, ref + period_end.v>>

\* the fetched rows of patient p
FetchedOf(p) == {r \in Range(df_visit) : r.person_id = p}

\* the reference dates of patient p
RefsOf(p) == {c.index_date : c \in {x \in Range(patients) : x.person_id = p}}

WhollyBefore(r, w) == r.visit_end_date < w[1]

WhollyAfter(r, w) == r.visit_start_date > w[2]

\* C19: every visit row left for the count is neither wholly before nor
\* wholly after the period of its cohort row, and if its end is not before
\* its start it shares a day with the period; a patient whose fetched visits
\* all lie wholly before or wholly after the period has count 0; a patient
\* with a visit that reaches just the first or the last day of the period is
\* counted.
C19_OnlyVisitsIntersectingPeriodCount ==
    Counted =>
        /\ \A r \in Range(patients_visits) :
             LET w == Window(r.index_date)
             IN  /\ ~WhollyBefore(r, w) /\ ~WhollyAfter(r, w)
                 /\ r.visit_start_date <= r.visit_end_date =>
                      \E d \in (r.visit_start_date)..(r.visit_end_date) :
                          w[1] <= d /\ d <= w[2]
        /\ \A p \in CohortIds :
             /\ (\A r \in FetchedOf(p) : \A ref \in RefsOf(p) :
                     WhollyBefore(r, Window(ref)) \/ WhollyAfter(r, Window(ref)))
                 => CountOf(p) = 0
             /\ (\E r \in FetchedOf(p) : \E ref \in RefsOf(p) :
                     /\ r.visit_start_date < r.visit_end_date
                     /\ \/ r.visit_end_date = Window(ref)[1]
                        \/ r.visit_start_date = Window(ref)[2])
                 => CountOf(p) >= 1

\* a patient counted once for a visit that starts before the period and ends
\* on its first day, another visit lying wholly after the period
C19_Witness ==
    /\ Counted
    /\ \E p \in CohortIds :
        /\ OneWindow(p) /\ CountOf(p) = 1
        /\ \E r \in FetchedOf(p) : \E ref \in RefsOf(p) :
            /\ r.visit_start_date < Window(ref)[1]
            /\ r.visit_end_date = Window(ref)[1]
        /\ \E r \in FetchedOf(p) : \E ref \in RefsOf(p) :
            WhollyAfter(r, Window(ref))

(***************************************************************************)
(* get_aggregated_measurement: arguments and fetched rows                  *)
(***************************************************************************)
\* get_agg_measurements.py:71
AcceptedPolicies ==
    {"mean", "median", "mode", "max", "min",
     "mode_median", "mode_mean", "mode_min", "mode_max"}

\* the eight policies of the docstring
ValidPolicies == AcceptedPolicies \ {"mode"}

ModePolicies == {"mode_median", "mode_mean", "mode_min", "mode_max"}

PolicyArgs == AcceptedPolicies \cup {"mode_sum", "Mean"}

\* faulty variant: every policy string passes line 71
PolicyRecognized_Any(a) == TRUE

\* get_agg_measurements.py:71, the membership test
PolicyRecognized(a) == a \in AcceptedPolicies

\* get_agg_measurements.py:80-85
KnownScales == {"CGI-S", "CGI-I", "GAF"}

ScaleArgs == KnownScales \cup {"PHQ-9"}

MeasurementRow(p, d, v) == [person_id |-> p, measurement_date |-> d, value |-> v]

MeasurementLE(a, b) ==
    \/ a.person_id < b.person_id
    \/ a.person_id = b.person_id /\ a.measurement_date < b.measurement_date
    \/ /\ a.person_id = b.person_id
       /\ a.measurement_date = b.measurement_date
       /\ a.value <= b.value

\* the rows a fetcher may return for a scale
MeasurementRows(sc) ==
    CASE sc = "CGI-S" ->
            {MeasurementRow(p, d, v) :
                p \in Persons, d \in MeasurementDates, v \in Values}
      [] sc = "CGI-I" ->
            {MeasurementRow(p, d, v) :
                p \in Persons, d \in ImprovementDates, v \in ImprovementValues}
      [] OTHER ->
            {MeasurementRow(p, d, v) :
                p \in Persons, d \in GafDates, v \in GafValues}

MeasurementBound(sc) ==
    CASE sc = "CGI-S" -> MaxRows
      [] sc = "CGI-I" -> MaxRowsOther
      [] OTHER -> MaxRowsGAF

\* the tables nb.get_CGIS, nb.get_CGII or nb.get_GAF may return: at least one
\* row (what groupby.apply gives for an empty table differs between pandas
\* releases and is not modelled)
MeasurementFrames(sc) ==
    SortedFrames(MeasurementRows(sc), MeasurementBound(sc), MeasurementLE)
        \ {<<>>}

(***************************************************************************)
(* get_aggregated_measurement: the table operations                        *)
(***************************************************************************)
\* faulty variant: the rows are grouped by person_id whatever change is
GroupKey_PersonOnly(r, chg) == <<r.person_id>>

\* get_agg_measurements.py:88-91, the group key of a row
GroupKey(r, chg) ==
    IF chg THEN <<r.person_id, r.measurement_date>> ELSE <<r.person_id>>

KeyLess(a, b) ==
    \/ a[1] < b[1]
    \/ a[1] = b[1] /\ Len(a) = 2 /\ Len(b) = 2 /\ a[2] < b[2]

\* the group keys in the order groupby yields them (ascending)
GroupKeys(t, chg) ==
    LET ks == {GroupKey(r, chg) : r \in Range(t)}
        F[k \in 0..Cardinality(ks)] ==
            IF k = 0 THEN <<>>
            ELSE Append(F[k - 1],
                    CHOOSE x \in ks :
                        Cardinality({y \in ks : KeyLess(y, x)}) = k - 1)
    IN  F[Cardinality(ks)]

\* the 'value' column of one group, in table order
GroupValues(t, chg, key) ==
    LET rows == SelectSeq(t, LAMBDA r : GroupKey(r, chg) = key)
    IN  [k \in 1..Len(rows) |-> rows[k].value]

RECURSIVE InsertInt(_, _)
InsertInt(v, s) ==
    IF s = <<>> THEN <<v>>
    ELSE IF v < Head(s) THEN <<v>> \o s
    ELSE <<Head(s)>> \o InsertInt(v, Tail(s))

RECURSIVE SortInts(_)
SortInts(s) ==
    IF s = <<>> THEN <<>> ELSE InsertInt(Head(s), SortInts(Tail(s)))

RECURSIVE Sum(_)
Sum(s) == IF s = <<>> THEN 0 ELSE Head(s) + Sum(Tail(s))

\* the statistics give a fraction <<numerator, denominator>>
Mean(vals) == <<Sum(vals), Len(vals)>>

\* faulty variant: the middle of the values in table order
Median_TableOrder(vals) ==
    LET n == Len(vals)
    IN  IF n % 2 = 1 THEN <<vals[(n + 1) \div 2], 1>>
        ELSE <<vals[n \div 2] + vals[(n \div 2) + 1], 2>>

Median(vals) ==
    LET s == SortInts(vals)
        n == Len(s)
    IN  IF n % 2 = 1 THEN <<s[(n + 1) \div 2], 1>>
        ELSE <<s[n \div 2] + s[(n \div 2) + 1], 2>>

Max(vals) == <<SortInts(vals)[Len(vals)], 1>>

Min(vals) == <<SortInts(vals)[1], 1>>

Occurrences(vals, v) == Cardinality({k \in 1..Len(vals) : vals[k] = v})

\* faulty variant: every distinct value of the group is taken as a mode
Modes_AllValues(vals) ==
    LET ms == Range(vals)
        F[k \in 0..Cardinality(ms)] ==
            IF k = 0 THEN <<>>
            ELSE Append(F[k - 1],
                    CHOOSE x \in ms : Cardinality({y \in ms : y < x}) = k - 1)
    IN  F[Cardinality(ms)]

\* pd.Series.mode: the most frequent values, ascending
Modes(vals) ==
    LET ms == {v \in Range(vals) :
                \A w \in Range(vals) : Occurrences(vals, w) <= Occurrences(vals, v)}
        F[k \in 0..Cardinality(ms)] ==
            IF k = 0 THEN <<>>
            ELSE Append(F[k - 1],
                    CHOOSE x \in ms : Cardinality({y \in ms : y < x}) = k - 1)
    IN  F[Cardinality(ms)]

\* faulty variant: an exact half goes up
RoundHalfEven_HalfUp(f) ==
    LET q == f[1] \div f[2]
        r == f[1] % f[2]
    IN  IF 2 * r < f[2] THEN q ELSE q + 1

\* round(x, 0).astype(int): nearest integer, an exact half goes to the even one
RoundHalfEven(f) ==
    LET q == f[1] \div f[2]
        r == f[1] % f[2]
    IN  IF 2 * r < f[2] THEN q
        ELSE IF 2 * r > f[2] THEN q + 1
        ELSE IF q % 2 = 0 THEN q ELSE q + 1

\* get_agg_measurements.py:95-115, the aggregate of one group (policy # 'mode')
AggregateGroup(policy, vals) ==
    CASE policy = "mean" -> Mean(vals)
      [] policy = "median" -> Median(vals)
      [] policy = "max" -> Max(vals)
      [] policy = "min" -> Min(vals)
      [] policy = "mode_median" -> Median(Modes(vals))
      [] policy = "mode_mean" -> Mean(Modes(vals))
      [] policy = "mode_min" -> Min(Modes(vals))
      [] policy = "mode_max" -> Max(Modes(vals))

\* get_agg_measurements.py:92-117, one row per group
Aggregate(t, policy, chg) ==
    LET ks == GroupKeys(t, chg)
    IN  [k \in 1..Len(ks) |->
            [key |-> ks[k],
             value |-> RoundHalfEven(
                          AggregateGroup(policy, GroupValues(t, chg, ks[k])))]]

\* the fields of a delta row pairing the rows a (earlier) and b of t
DeltaRow(a, b) ==
    [person_id |-> b.key[1],
     prev_measurement_date |-> a.key[2],
     prev_value |-> a.value,
     measurement_date |-> b.key[2],
     value |-> b.value,
     days_between_change |-> b.key[2] - a.key[2],
     value_change |-> b.value - a.value]

\* faulty variant: every row is paired with the first row of its patient
Previous_FirstOfPatient(t, k) ==
    t[CHOOSE j \in 1..Len(t) :
        /\ t[j].key[1] = t[k - 1].key[1]
        /\ \A h \in 1..(j - 1) : t[h].key[1] # t[k - 1].key[1]]

\* get_agg_measurements.py:123-125: the row a row is paired with, shift(1)
Previous(t, k) == t[k - 1]

\* faulty variant: the rows paired with a row of another patient are kept
Deltas_NoPersonCheck(t) ==
    [j \in 1..(IF Len(t) = 0 THEN 0 ELSE Len(t) - 1) |-> DeltaRow(t[j], t[j + 1])]

\* get_agg_measurements.py:123-136: each row is paired with the row before
\* it; the rows whose previous row is of another patient (value_change is
\* missing) are dropped, the first row among them
Deltas(t) ==
    LET kept == SelectIdx([k \in 1..Len(t) |-> k],
                    LAMBDA k : k > 1 /\ t[k].key[1] = t[k - 1].key[1])
    IN  [j \in 1..Len(kept) |-> DeltaRow(Previous(t, kept[j]), t[kept[j]])]

\* df.person_id.nunique()
NuniquePersons(t) == Cardinality({r.person_id : r \in Range(t)})

(***************************************************************************)
(* get_aggregated_measurement: the steps                                   *)
(***************************************************************************)
\* get_agg_measurements.py:71-73
AGG_Validate ==
    /\ UNCHANGED <<hvars, wvars>>
    /\ apc = "start"
    /\ IF ~PolicyRecognized(agg)
       THEN /\ awarned' = Append(awarned, "Aggregation method not found.")
            /\ aoutcome' = "returned None"
            /\ apc' = "done"
       ELSE /\ apc' = "fetch"
            /\ UNCHANGED <<awarned, aoutcome>>
    /\ UNCHANGED <<scale, agg, change, get_measurement_calls, df, clean_agg_df,
                   aresult>>

\* get_agg_measurements.py:80-85, the fetcher raises
AGG_FetchFails ==
    /\ UNCHANGED <<hvars, wvars>>
    /\ apc = "fetch"
    /\ scale \in KnownScales
    /\ get_measurement_calls' = Append(get_measurement_calls, scale)
    /\ aoutcome' = "FetchError"
    /\ apc' = "done"
    /\ UNCHANGED <<scale, agg, change, df, clean_agg_df, aresult, awarned>>

\* get_agg_measurements.py:80-92; for an unknown scale no branch binds df and
\* line 92 raises UnboundLocalError
AGG_Fetch ==
    /\ UNCHANGED <<hvars, wvars>>
    /\ apc = "fetch"
    /\ IF scale \in KnownScales
       THEN /\ get_measurement_calls' = Append(get_measurement_calls, scale)
            /\ \E rows \in MeasurementFrames(scale) : df' = rows
            /\ apc' = "aggregate"
            /\ UNCHANGED aoutcome
       ELSE /\ aoutcome' = "UnboundLocalError"
            /\ apc' = "done"
            /\ UNCHANGED <<get_measurement_calls, df>>
    /\ UNCHANGED <<scale, agg, change, clean_agg_df, aresult, awarned>>

\* get_agg_measurements.py:88-117; for 'mode' no branch binds agg_df and
\* line 117 raises UnboundLocalError
AGG_Aggregate ==
    /\ UNCHANGED <<hvars, wvars>>
    /\ apc = "aggregate"
    /\ IF agg = "mode"
       THEN /\ aoutcome' = "UnboundLocalError"
            /\ apc' = "done"
            /\ UNCHANGED clean_agg_df
       ELSE /\ clean_agg_df' = Aggregate(df, agg, change)
            /\ apc' = "finish"
            /\ UNCHANGED aoutcome
    /\ UNCHANGED <<scale, agg, change, get_measurement_calls, df, aresult,
                   awarned>>

\* get_agg_measurements.py:119-138
AGG_Finish ==
    /\ UNCHANGED <<hvars, wvars>>
    /\ apc = "finish"
    /\ apc' = "done"
    /\ IF change = FALSE
       THEN IF Len(clean_agg_df) = NuniquePersons(df)
            THEN aoutcome' = "returned" /\ aresult' = clean_agg_df
            ELSE aoutcome' = "AssertionError" /\ UNCHANGED aresult
       ELSE aoutcome' = "returned" /\ aresult' = Deltas(clean_agg_df)
    /\ UNCHANGED <<scale, agg, change, get_measurement_calls, df, clean_agg_df,
                   awarned>>

\* calculate_HCRU is not running
HCRUIdle ==
    /\ caller_patients = <<>>
    /\ patients = <<>> /\ ref_is_datetime = TRUE
    /\ period_start = [isInt |-> TRUE, v |-> 0]
    /\ period_end = [isInt |-> TRUE, v |-> 0]
    /\ visit_mapping = [kind |-> "none", items |-> <<>>]
    /\ pc = "idle" /\ i = 1 /\ period_duration = 0
    /\ get_visit_calls = <<>> /\ df_visit = <<>> /\ patients_visits = <<>>
    /\ number_of_visits_in_period = NoTable
    /\ warned = <<>> /\ outcome = "none"

InitAgg ==
    /\ HCRUIdle
    /\ WriteIdle
    /\ scale \in ScaleArgs
    /\ agg \in PolicyArgs
    /\ change \in BOOLEAN
    /\ apc = "start"
    /\ get_measurement_calls = <<>>
    /\ df = <<>> /\ clean_agg_df = <<>> /\ aresult = <<>>
    /\ awarned = <<>> /\ aoutcome = "none"

NextAgg ==
    \/ AGG_Validate
    \/ AGG_FetchFails
    \/ AGG_Fetch
    \/ AGG_Aggregate
    \/ AGG_Finish

SpecAgg == InitAgg /\ [][NextAgg]_vars

(***************************************************************************)
(* get_aggregated_measurement: properties                                  *)
(***************************************************************************)
\* line 117 has produced the aggregated table
Aggregated == clean_agg_df # <<>>

\* the distinct group keys present in the fetched rows
DistinctKeys ==
    IF change
    THEN {<<r.person_id, r.measurement_date>> : r \in Range(df)}
    ELSE {<<r.person_id>> : r \in Range(df)}

ModalSet(vals) ==
    LET freq(v) == Len(SelectSeq(vals, LAMBDA w : w = v))
    IN  {v \in Range(vals) : \A w \in Range(vals) : freq(w) <= freq(v)}

RECURSIVE SetSum(_)
SetSum(S) ==
    IF S = {} THEN 0 ELSE LET x == CHOOSE y \in S : TRUE IN x + SetSum(S \ {x})

\* the element of S with k elements below it
Ranked(S, k) == CHOOSE x \in S : Cardinality({y \in S : y < x}) = k

\* the named secondary statistic of the set S of modes, rounded
ModeStatistic(policy, S) ==
    LET n == Cardinality(S)
    IN  CASE policy = "mode_min" -> Ranked(S, 0)
          [] policy = "mode_max" -> Ranked(S, n - 1)
          [] policy = "mode_mean" -> RoundHalfEven(<<SetSum(S), n>>)
          [] policy = "mode_median" ->
                IF n % 2 = 1 THEN Ranked(S, (n - 1) \div 2)
                ELSE RoundHalfEven(
                        <<Ranked(S, (n \div 2) - 1) + Ranked(S, n \div 2), 2>>)

\* the values of the fetched rows of one group
ValuesOfKey(key) ==
    LET rows == SelectSeq(df, LAMBDA r :
                    /\ r.person_id = key[1]
                    /\ Len(key) = 2 => r.measurement_date = key[2])
    IN  [k \in 1..Len(rows) |-> rows[k].value]

IsExampleGroup(vals) ==
    /\ Len(vals) = 5
    /\ Len(SelectSeq(vals, LAMBDA v : v = 3)) = 2
    /\ Len(SelectSeq(vals, LAMBDA v : v = 5)) = 2
    /\ Len(SelectSeq(vals, LAMBDA v : v = 7)) = 1

\* C10: under a mode_* policy the value of every group is the secondary
\* statistic of the set of modal values of the group; a group with one mode
\* gets that mode; the values [3,3,5,5,7] give mode_median 4, mode_max 5 and
\* mode_min 3.
C10_ModeThenSecondaryStatistic ==
    (agg \in ModePolicies /\ Aggregated) =>
        \A k \in 1..Len(clean_agg_df) :
            LET vals == ValuesOfKey(clean_agg_df[k].key)
                M == ModalSet(vals)
                got == clean_agg_df[k].value
            IN  /\ got = ModeStatistic(agg, M)
                /\ Cardinality(M) = 1 => got \in M
                /\ IsExampleGroup(vals) =>
                    got = (CASE agg = "mode_median" -> 4
                             [] agg = "mode_mean" -> 4
                             [] agg = "mode_max" -> 5
                             [] agg = "mode_min" -> 3)

\* the group [3,3,5,5,7] aggregated with mode_median gives 4
C10_Witness ==
    /\ agg = "mode_median" /\ Aggregated
    /\ \E k \in 1..Len(clean_agg_df) :
        /\ IsExampleGroup(ValuesOfKey(clean_agg_df[k].key))
        /\ clean_agg_df[k].value = 4

\* the call has taken the path of lines 72-73: the warning, None returned,
\* nothing raised and no fetcher called
RejectedBeforeFetch ==
    /\ apc = "done"
    /\ aoutcome = "returned None"
    /\ awarned = <<"Aggregation method not found.">>
    /\ get_measurement_calls = <<>>
    /\ df = <<>> /\ clean_agg_df = <<>> /\ aresult = <<>>

C12_ModeAloneIsRejected ==
    (agg = "mode" /\ apc # "start") => RejectedBeforeFetch

\* the measurement days of patient p among the fetched rows
DatesOf(p) == {r.measurement_date : r \in {x \in Range(df) : x.person_id = p}}

\* the aggregated value of patient p on day d
ValueAt(p, d) == (CHOOSE r \in Range(clean_agg_df) : r.key = <<p, d>>).value

\* the delta rows returned for patient p, in order
DeltasOf(p) == SelectSeq(aresult, LAMBDA r : r.person_id = p)

ReturnedDeltas == change /\ apc = "done" /\ aoutcome = "returned"

\* the readings (day 1, 4), (day 5, 6), (day 10, 6)
IsExampleSeries(p) ==
    /\ DatesOf(p) = {1, 5, 10}
    /\ ValueAt(p, 1) = 4 /\ ValueAt(p, 5) = 6 /\ ValueAt(p, 10) = 6

\* C13: with change True, a patient whose aggregated per-day readings are
\* r1..rn in date order gets exactly n-1 delta rows; the j-th pairs reading
\* j+1 with reading j, days_between_change is the difference of their dates
\* and value_change the difference of their values; the readings (day 1, 4),
\* (day 5, 6), (day 10, 6) give (4 days, +2) and (5 days, 0).
C13_DeltaRowsPairConsecutiveReadings ==
    ReturnedDeltas =>
        \A p \in Persons :
            LET D == DatesOf(p)
                rows == DeltasOf(p)
            IN  /\ Len(rows) = (IF D = {} THEN 0 ELSE Cardinality(D) - 1)
                /\ \A j \in 1..Len(rows) :
                     LET a == Ranked(D, j - 1)
                         b == Ranked(D, j)
                     IN  /\ rows[j].prev_measurement_date = a
                         /\ rows[j].measurement_date = b
                         /\ rows[j].prev_value = ValueAt(p, a)
                         /\ rows[j].value = ValueAt(p, b)
                         /\ rows[j].days_between_change = b - a
                         /\ rows[j].value_change = ValueAt(p, b) - ValueAt(p, a)
                /\ IsExampleSeries(p) =>
                     /\ Len(rows) = 2
                     /\ rows[1].days_between_change = 4
                     /\ rows[1].value_change = 2
                     /\ rows[2].days_between_change = 5
                     /\ rows[2].value_change = 0

\* the three readings of the example returned as two delta rows
C13_Witness ==
    /\ ReturnedDeltas
    /\ \E p \in Persons : IsExampleSeries(p) /\ Len(DeltasOf(p)) = 2

\* the patients with an aggregated reading
AggregatedPersons == {r.key[1] : r \in Range(clean_agg_df)}

\* C14: every delta row pairs two readings of one patient, the earlier one
\* first; the rows that would pair two patients and the first row of the
\* table are absent from the result, so it has one row less per patient than
\* the aggregated table; a patient with one reading has no row.
C14_NoCrossPatientDelta ==
    ReturnedDeltas =>
        /\ \A k \in 1..Len(aresult) :
             LET r == aresult[k]
             IN  /\ r.prev_measurement_date \in DatesOf(r.person_id)
                 /\ r.measurement_date \in DatesOf(r.person_id)
                 /\ r.prev_measurement_date < r.measurement_date
                 /\ r.prev_value = ValueAt(r.person_id, r.prev_measurement_date)
                 /\ r.value = ValueAt(r.person_id, r.measurement_date)
        /\ Len(aresult) = Len(clean_agg_df) - Cardinality(AggregatedPersons)
        /\ \A p \in Persons : Cardinality(DatesOf(p)) = 1 => DeltasOf(p) = <<>>

\* two patients, one with a single reading: the row at the patient boundary
\* is absent
C14_Witness ==
    /\ ReturnedDeltas
    /\ Cardinality(DatesOf(1)) >= 2 /\ DeltasOf(1) # <<>>
    /\ Cardinality(DatesOf(2)) = 1 /\ DeltasOf(2) = <<>>

\* the table t with its rows j and k exchanged
Swapped(t, j, k) ==
    [h \in 1..Len(t) |-> IF h = j THEN t[k] ELSE IF h = k THEN t[j] ELSE t[h]]

Reversed(t) == [h \in 1..Len(t) |-> t[Len(t) + 1 - h]]

\* other orders in which the fetcher may return the rows of t
Reorderings(t) ==
    {Reversed(t)} \cup {Swapped(t, j, j + 1) : j \in 1..(Len(t) - 1)}

\* C15: the table returned does not depend on the order in which the fetcher
\* returns the rows: the same arguments over the same rows in another order
\* (two neighbouring rows exchanged, or the whole table reversed) give the
\* same aggregated table and the same result.
C15_OutputIndependentOfRowOrder ==
    (agg \in ValidPolicies /\ apc = "done" /\ aoutcome = "returned") =>
        \A t \in Reorderings(df) :
            LET aggregated == Aggregate(t, agg, change)
            IN  /\ aggregated = clean_agg_df
                /\ aresult = (IF change THEN Deltas(aggregated) ELSE aggregated)

\* a returned call over rows whose reversal is another table with several
\* values in one group
C15_Witness ==
    /\ agg \in ValidPolicies /\ apc = "done" /\ aoutcome = "returned"
    /\ Reversed(df) # df
    /\ Len(df) > Len(clean_agg_df)
    /\ \E t \in Reorderings(df) :
        \E k \in 1..Len(clean_agg_df) :
            GroupValues(t, change, clean_agg_df[k].key) # ValuesOfKey(clean_agg_df[k].key)

\* C16: a call with a valid policy and a scale other than "CGI-S", "CGI-I"
\* and "GAF" ends with a warning about the scale and raises no error.
C16_UnknownScaleWarns ==
    (agg \in ValidPolicies /\ scale \notin KnownScales /\ apc = "done") =>
        /\ awarned # <<>>
        /\ aoutcome \in {"returned", "returned None"}

\* twice the distance of the integer v from the fraction f, in units of 1/f[2]
TwiceDistance(v, f) ==
    LET d == v * f[2] - f[1] IN IF d < 0 THEN -2 * d ELSE 2 * d

\* C20: under every policy each aggregated value is an integer nearest to
\* the statistic of its group, and a statistic exactly half way between two
\* integers goes to the even one: the median of the modes {2, 3} gives 2 and
\* the median of the modes {3, 4} gives 4.
C20_RoundsHalfToEven ==
    (agg \in ValidPolicies /\ Aggregated) =>
        \A k \in 1..Len(clean_agg_df) :
            LET vals == ValuesOfKey(clean_agg_df[k].key)
                f == AggregateGroup(agg, vals)
                v == clean_agg_df[k].value
            IN  /\ v \in Int
                /\ TwiceDistance(v, f) <= f[2]
                /\ TwiceDistance(v, f) = f[2] => v % 2 = 0
                /\ (agg = "mode_median" /\ ModalSet(vals) = {2, 3}) => v = 2
                /\ (agg = "mode_median" /\ ModalSet(vals) = {3, 4}) => v = 4

\* the modes {2, 3} of one group aggregated with mode_median to 2
C20_Witness ==
    /\ agg = "mode_median" /\ Aggregated
    /\ \E k \in 1..Len(clean_agg_df) :
        /\ ModalSet(ValuesOfKey(clean_agg_df[k].key)) = {2, 3}
        /\ clean_agg_df[k].value = 2

(***************************************************************************)
(* calculate_HCRU: the fetches and the returned table                      *)
(***************************************************************************)
\* s is an initial part of t
IsPrefix(s, t) == Len(s) <= Len(t) /\ s = SubSeq(t, 1, Len(s))

\* C21: a call with valid arguments and a fetcher that does not fail ends
\* having called nb.get_visit once per label, in mapping order, with that
\* label's visit types; when a fetch raises, the call ends with that error
\* and the failed fetch is the last one made.
C21_OneFetchPerLabel ==
    /\ IsPrefix(get_visit_calls, Keys)
    /\ (pc = "done" /\ outcome \notin ArgErrors \cup {"FetchError"})
            => get_visit_calls = Keys
    /\ outcome = "FetchError" => pc = "done"

\* the table out has the rows of the caller's table with every value of the
\* caller's columns as it was
KeepsCallerColumns(out) ==
    /\ Len(out) = Len(caller_patients)
    /\ \A k \in 1..Len(out) :
        /\ out[k].person_id = caller_patients[k].person_id
        /\ out[k].index_date = caller_patients[k].index_date
        /\ out[k].other = caller_patients[k].other

\* C23: a call with valid arguments and no fetch failure returns the
\* caller's table with one count column per label added and every value of
\* the caller's columns, a missing one included, as it was; the table that
\* lines 100-101 build from the counts of an iteration keeps those values.
C23_OnlyCountColumnsAdded ==
    /\ (/\ pc = "done" /\ WellFormedMapping
        /\ outcome \notin ArgErrors \cup {"FetchError"})
            => /\ outcome = "returned"
               /\ KeepsCallerColumns(patients)
               /\ \A k \in 1..Len(patients) :
                    Len(patients[k].counts) = Len(Keys)
    /\ Counted =>
            KeepsCallerColumns(
                MergeLeftFillna(patients, number_of_visits_in_period))

(***************************************************************************)
(* write_db (src/src/utilities.py) over pgIO (src/src/databaseIO/pgIO.py)  *)
(***************************************************************************)
\* kinds of name: plain, beginning with a digit, containing a white space
NameKinds == {"plain", "digit", "space"}

\* change_user: a role name, None, or a value that is not a string
ChangeUserArgs ==
    {[isStr |-> TRUE, v |-> "ds_role"],
     [isStr |-> FALSE, v |-> "None"],
     [isStr |-> FALSE, v |-> "5"]}

\* dbname: None or the name of a database of db.json
DbNameArgs == {"None", "cdm", "analytics"}

\* pgIO.py:38-49, create_connection: the database a connection is opened
\* to, "None" when neither dbName nor defaultDB names one (FileNotFoundError)
ConnectedDb(dbName, defaultDB) ==
    IF dbName # "None" THEN dbName ELSE defaultDB

\* pgIO.py:335, the bare return of commitDataList
CommitDataListResult == "None"

\* truth value of r in "if r and change_user"
Truthy(v) == v = "True"

\* utilities.py:291-309, white spaces become underscores
Underscored(kind) == IF kind = "space" THEN "underscored" ELSE kind

\* utilities.py:251-316: the checks before the first statement
WDB_Validate ==
    /\ UNCHANGED <<hvars, avars>>
    /\ wpc = "start"
    /\ LET w1 == IF ~change_user.isStr
                 THEN <<"change_user is not string">> ELSE <<>>
           w2 == IF df_columns = "space"
                 THEN <<"columns have white spaces">> ELSE <<>>
           w3 == IF tablename = "space"
                 THEN <<"tablename has white spaces">> ELSE <<>>
       IN  /\ change_user' = IF change_user.isStr THEN change_user
                              ELSE [isStr |-> FALSE, v |-> "None"]
           /\ IF df_columns = "digit"
              THEN /\ wwarned' = wwarned \o w1 \o <<"columns begin with a digit">>
                   /\ woutcome' = "returned None"
                   /\ wpc' = "done"
                   /\ UNCHANGED <<df_columns, tablename>>
              ELSE IF tablename = "digit"
              THEN /\ wwarned' = wwarned \o w1 \o <<"tablename begins with a digit">>
                   /\ woutcome' = "returned None"
                   /\ wpc' = "done"
                   /\ UNCHANGED <<df_columns, tablename>>
              ELSE /\ wwarned' = wwarned \o w1 \o w2 \o w3
                   /\ df_columns' = Underscored(df_columns)
                   /\ tablename' = Underscored(tablename)
                   /\ IF drop_ifexists
                      THEN woutcome' = "NotImplementedError" /\ wpc' = "done"
                      ELSE wpc' = "create" /\ UNCHANGED woutcome
    /\ UNCHANGED <<drop_ifexists, dbname, default_db, r_insert, db_log>>

\* utilities.py:319, pgIO.commitData(query, dbName=dbname)
WDB_Create ==
    /\ UNCHANGED <<hvars, avars>>
    /\ wpc = "create"
    /\ ConnectedDb(dbname, default_db) # "None"
    /\ db_log' = Append(db_log, [stmt |-> "CREATE TABLE",
                                 db |-> ConnectedDb(dbname, default_db)])
    /\ wpc' = "insert"
    /\ UNCHANGED <<df_columns, tablename, change_user, drop_ifexists, dbname,
                   default_db, r_insert, wwarned, woutcome>>

\* utilities.py:323, pgIO.commitDataList(query, rows, dbName="cdm")
WDB_Insert ==
    /\ UNCHANGED <<hvars, avars>>
    /\ wpc = "insert"
    /\ db_log' = Append(db_log, [stmt |-> "INSERT",
                                 db |-> ConnectedDb("cdm", default_db)])
    /\ r_insert' = CommitDataListResult
    /\ wpc' = "finish"
    /\ UNCHANGED <<df_columns, tablename, change_user, drop_ifexists, dbname,
                   default_db, wwarned, woutcome>>

\* pgIO.py:262-281 and 312-333: connecting, executing or committing fails
\* and the statement raises Exception
WDB_StatementFails ==
    /\ UNCHANGED <<hvars, avars>>
    /\ wpc \in {"create", "insert"}
    /\ woutcome' = "Exception"
    /\ wpc' = "done"
    /\ UNCHANGED <<df_columns, tablename, change_user, drop_ifexists, dbname,
                   default_db, r_insert, db_log, wwarned>>

\* utilities.py:325-342: the ownership transfer when r and change_user are
\* true, and return r
WDB_Finish ==
    /\ UNCHANGED <<hvars, avars>>
    /\ wpc = "finish"
    /\ db_log' =
        IF Truthy(r_insert) /\ change_user.isStr
        THEN db_log \o
             << [stmt |-> "ALTER SCHEMA", db |-> ConnectedDb(dbname, default_db)],
                [stmt |-> "ALTER TABLE", db |-> ConnectedDb(dbname, default_db)] >>
        ELSE db_log
    /\ woutcome' = IF Truthy(r_insert) THEN "returned True" ELSE "returned None"
    /\ wpc' = "done"
    /\ UNCHANGED <<df_columns, tablename, change_user, drop_ifexists, dbname,
                   default_db, r_insert, wwarned>>

InitWrite ==
    /\ HCRUIdle
    /\ AggIdle
    /\ df_columns \in NameKinds
    /\ tablename \in NameKinds
    /\ change_user \in ChangeUserArgs
    /\ drop_ifexists \in BOOLEAN
    /\ dbname \in DbNameArgs
    /\ default_db \in DbNameArgs
    /\ wpc = "start"
    /\ r_insert = "unset" /\ db_log = <<>>
    /\ wwarned = <<>> /\ woutcome = "none"

NextWrite ==
    \/ WDB_Validate
    \/ WDB_Create
    \/ WDB_Insert
    \/ WDB_StatementFails
    \/ WDB_Finish

SpecWrite == InitWrite /\ [][NextWrite]_vars

(***************************************************************************)
(* write_db: properties                                                    *)
(***************************************************************************)
\* the statements committed, in order
Statements == [k \in 1..Len(db_log) |-> db_log[k].stmt]

\* the call went through every statement it attempted: valid names, no
\* drop, no statement raised
Succeeded ==
    /\ wpc = "done"
    /\ woutcome \notin {"Exception", "NotImplementedError"}
    /\ db_log # <<>>

\* C22: a successful call has committed, in order, the table creation, the
\* row insertion and, when change_user is a string, the two ownership
\* statements, and it returns True.
C22_CreateInsertTransferReturnsTrue ==
    Succeeded =>
        /\ Statements =
              <<"CREATE TABLE", "INSERT">> \o
              (IF change_user.isStr THEN <<"ALTER SCHEMA", "ALTER TABLE">>
               ELSE <<>>)
        /\ woutcome = "returned True"

\* C24: every statement of a call is committed on one database, the one
\* dbname names (the default database of db.json when dbname is None).
C24_AllStatementsOnNamedDatabase ==
    \A k \in 1..Len(db_log) :
        db_log[k].db = ConnectedDb(dbname, default_db)

====
